---- MODULE Spec2Model ----
(***************************************************************************)
(* Model of main.go: the users collection of furnitureShopDB, the startup  *)
(* sequence of init() and main() (connect, migrations, example insert,     *)
(* listen) and the five CRUD handlers, each an independent goroutine that  *)
(* performs one store call.                                                *)
(*                                                                         *)
(* The MongoDB driver is an external library; its calls are modelled by    *)
(* their documented effect: InsertOne generates an _id when the encoded    *)
(* document has none and rejects a duplicate _id, UpdateOne/DeleteOne with *)
(* a filter that matches nothing return a nil error, fields tagged         *)
(* omitempty are left out of the encoded document when zero, and any call  *)
(* may fail with a transport error.                                        *)
(*                                                                         *)
(* time.Now() is a nondecreasing clock: a read returns the current value   *)
(* or a later one.                                                         *)
(***************************************************************************)
EXTENDS Integers, Sequences, FiniteSets, TLC

\* ---------------------------------------------------------------- bounds
MaxOid    == 4   \* identifiers 1..MaxOid; the driver generates them in order
MaxClock  == 1   \* time.Now() ranges over 0..MaxClock
MaxStarts == 2   \* process starts
MaxServed == 2   \* requests accepted over a run of the model
MaxDocs   == 2   \* length of the collections InitList enumerates

\* ------------------------------------------------------------- constants
NilObjectID == 0          \* primitive.NilObjectID, the zero value of ObjectID
BadHex      == -1         \* an id parameter that is not 24 hex digits
NilDatabase == 0          \* a nil *mongo.Database
InitHandle  == 1          \* the handle init() stores in the global
MainHandle  == 2          \* the handle main() keeps in its local variable

Oids     == 1..MaxOid
\* identifiers clients name in requests: that of the first document startup
\* inserts, and one the driver has not generated yet after the first startup
ClientOids == {1, 3}
Slots    == {1, 2}      \* goroutines serving requests at once
Names    == {"a"}        \* names in create payloads
NewNames == {"a", "b"}   \* names in update payloads
Emails   == {"e"}
Ages     == {0, 7}
\* timestamps a caller may put in a create payload (overwritten by createUser)
PayloadTimes == {0, MaxClock + 5}

VARIABLES
  pc,         \* position of the process: off, init, main, seed, backfill,
              \* example, listen, serving, exited
  database,   \* the package-level variable database (line 23)
  localDb,    \* main's local variable database (line 175)
  coll,       \* the users collection: documents in natural order
  clock,      \* the last value time.Now() returned
  nextOid,    \* the next identifier the driver generates
  starts,     \* number of process starts so far
  steps,      \* the startup steps this process has completed or failed
  reqs,       \* the requests in flight, one record per goroutine
  resp,       \* the response written by the last step (NoResp if none)
  served,     \* number of requests accepted so far
  deleted     \* history: identifiers whose delete removed a document (204)

vars ==
  <<pc, database, localDb, coll, clock, nextOid, starts, steps, reqs, resp,
    served, deleted>>

\* The goroutine that takes the next request: goroutines are interchangeable,
\* so the first idle one.
FreeSlot(i) ==
  /\ served < MaxServed
  /\ reqs[i].op = "idle"
  /\ \A j \in 1..(i - 1) : reqs[j].op # "idle"

\* ------------------------------------------------------------ data shapes
\* The zero value of the Go struct User (lines 34-42).
ZeroUser ==
  [ID |-> NilObjectID, Name |-> "", Email |-> "", Age |-> 0,
   CreatedAt |-> 0, UpdatedAt |-> 0, Version |-> 0]

\* bson.Marshal of a User that leaves the age out whatever its value.
EncodeUserNoAge(u) ==
  [hasId |-> u.ID # NilObjectID, id |-> u.ID,
   name |-> u.Name, email |-> u.Email,
   hasAge |-> FALSE, age |-> 0,
   created_at |-> u.CreatedAt, updated_at |-> u.UpdatedAt,
   version |-> u.Version, bad |-> "none"]

\* bson.Marshal of a User: _id and age carry omitempty, so a zero ID or a zero
\* Age is left out of the document. bad names the first field whose stored
\* type does not fit the struct ("none" for every document this program writes).
EncodeUser(u) ==
  [hasId |-> u.ID # NilObjectID, id |-> u.ID,
   name |-> u.Name, email |-> u.Email,
   hasAge |-> u.Age # 0, age |-> u.Age,
   created_at |-> u.CreatedAt, updated_at |-> u.UpdatedAt,
   version |-> u.Version, bad |-> "none"]

\* Decoding a stored document into a User (cursor.Decode, SingleResult.Decode):
\* elements are decoded in order and decoding stops at the first that does not
\* fit; the fields after it keep their zero value. A missing age decodes to 0.
DecodeUser(d) ==
  CASE d.bad = "name" ->
         [ok |-> FALSE, user |-> [ZeroUser EXCEPT !.ID = d.id]]
    [] d.bad = "version" ->
         [ok |-> FALSE,
          user |-> [ID |-> d.id, Name |-> d.name, Email |-> d.email,
                    Age |-> IF d.hasAge THEN d.age ELSE 0,
                    CreatedAt |-> d.created_at, UpdatedAt |-> d.updated_at,
                    Version |-> 0]]
    [] OTHER ->
         [ok |-> TRUE,
          user |-> [ID |-> d.id, Name |-> d.name, Email |-> d.email,
                    Age |-> IF d.hasAge THEN d.age ELSE 0,
                    CreatedAt |-> d.created_at, UpdatedAt |-> d.updated_at,
                    Version |-> d.version]]

\* primitive.ObjectIDFromHex: a string that is not 24 hex digits yields
\* NilObjectID and an error (which every handler discards).
ObjectIDFromHex(s) == IF s = BadHex THEN NilObjectID ELSE s

IdsOf(c) == {c[k].id : k \in 1..Len(c)}

PosOf(c, oid) ==
  IF \E k \in 1..Len(c) : c[k].id = oid
  THEN CHOOSE k \in 1..Len(c) : c[k].id = oid /\ \A j \in 1..(k-1) : c[j].id # oid
  ELSE 0

DocOf(c, oid) == c[PosOf(c, oid)]

\* ------------------------------------------------------- store operations
\* Collection.InsertOne: the driver adds a generated _id when the encoded
\* document has none; the server rejects an _id that is already stored.
InsertOne(c, u, gen) ==
  LET d   == EncodeUser(u)
      doc == IF d.hasId THEN d ELSE [d EXCEPT !.hasId = TRUE, !.id = gen]
  IN  IF doc.id \in IdsOf(c)
      THEN [ok |-> FALSE, coll |-> c, id |-> NilObjectID, generated |-> ~d.hasId]
      ELSE [ok |-> TRUE, coll |-> Append(c, doc), id |-> doc.id,
            generated |-> ~d.hasId]

\* UpdateOne with the upsert option: a filter that matches nothing inserts.
UpdateOneUpsert(c, oid, name, now) ==
  LET p == PosOf(c, oid)
  IN  IF p = 0
      THEN Append(c, [hasId |-> TRUE, id |-> oid, name |-> name, email |-> "",
                      hasAge |-> FALSE, age |-> 0, created_at |-> 0,
                      updated_at |-> now, version |-> 0, bad |-> "none"])
      ELSE [c EXCEPT ![p] = [@ EXCEPT !.name = name, !.updated_at = now]]

\* UpdateOne given the new fields as a replacement document instead of $set.
UpdateOneReplace(c, oid, name, now) ==
  LET p == PosOf(c, oid)
  IN  IF p = 0 THEN c
      ELSE [c EXCEPT ![p] = [@ EXCEPT !.name = name, !.updated_at = now,
                                      !.email = "", !.hasAge = FALSE, !.age = 0,
                                      !.created_at = 0, !.version = 0]]

\* UpdateOne with only the name in $set: updated_at is left as it was.
UpdateOneNameOnly(c, oid, name, now) ==
  LET p == PosOf(c, oid)
  IN  IF p = 0 THEN c
      ELSE [c EXCEPT ![p] = [@ EXCEPT !.name = name]]

\* Collection.UpdateOne(filter {_id: oid}, {$set: {name, updated_at}}): no
\* upsert; matching nothing is not an error.
UpdateOne(c, oid, name, now) ==
  LET p == PosOf(c, oid)
  IN  IF p = 0 THEN c
      ELSE [c EXCEPT ![p] = [@ EXCEPT !.name = name, !.updated_at = now]]

\* UpdateOne in place of UpdateMany: only the first document is changed.
UpdateFirstAge(c) ==
  IF c = <<>> THEN <<>>
  ELSE <<[Head(c) EXCEPT !.hasAge = TRUE, !.age = 0]>> \o Tail(c)

\* UpdateMany with the filter {age: {$exists: false}}: set-if-absent.
RECURSIVE UpdateManyAgeIfAbsent(_)
UpdateManyAgeIfAbsent(c) ==
  IF c = <<>> THEN <<>>
  ELSE <<IF Head(c).hasAge THEN Head(c)
         ELSE [Head(c) EXCEPT !.hasAge = TRUE, !.age = 0]>>
       \o UpdateManyAgeIfAbsent(Tail(c))

\* Collection.UpdateMany(filter {}, {$set: {age: 0}}).
RECURSIVE UpdateManyAge(_)
UpdateManyAge(c) ==
  IF c = <<>> THEN <<>>
  ELSE <<[Head(c) EXCEPT !.hasAge = TRUE, !.age = 0]>> \o UpdateManyAge(Tail(c))

\* DeleteOne with the filter dropped: the first document is removed.
DeleteOneAny(c, oid) ==
  IF c = <<>> THEN c ELSE Tail(c)

\* Collection.DeleteOne(filter {_id: oid}): matching nothing is not an error.
DeleteOne(c, oid) ==
  LET p == PosOf(c, oid)
  IN  IF p = 0 THEN c
      ELSE SubSeq(c, 1, p - 1) \o SubSeq(c, p + 1, Len(c))

\* ------------------------------------------------------------ requests
IdleReq ==
  [op |-> "idle", oid |-> NilObjectID, name |-> "", now |-> 0, recv |-> 0,
   user |-> ZeroUser]

\* A response: the handler, the status code, the identifier the request named
\* (or the InsertedID of the acknowledgment), the kind of body written
\* ("object", "array", "null", "none", or for http.Error the error whose text
\* it carries: "json", "transport", "duplicate", "nodocs", "decode"), the
\* users in it, and whether the filter matched a stored document when the
\* store call ran.
Response(op, status, oid, body, users, hit) ==
  [op |-> op, status |-> status, oid |-> oid, body |-> body, users |-> users,
   hit |-> hit]

NoResp == Response("none", 0, NilObjectID, "none", <<>>, FALSE)

\* The bodies a client may send to /createUser: not JSON at all, or an object
\* whose keys name fields of User (encoding/json matches the field names, ID
\* included, since the struct carries no json tags).
Malformed == [wellFormed |-> FALSE]

CreateBodies ==
  {Malformed} \cup
  [wellFormed : {TRUE}, ID : {NilObjectID} \cup ClientOids, Name : Names,
   Email : Emails, Age : Ages, CreatedAt : PayloadTimes,
   UpdatedAt : PayloadTimes, Version : {0}]

\* The bodies a client may send to /updateUser.
UpdateBodies == {Malformed} \cup [wellFormed : {TRUE}, Name : NewNames]

\* The id query parameter: any 24-hex string, or a string that does not parse.
IdParams == {BadHex, NilObjectID} \cup ClientOids

\* json.NewDecoder(r.Body).Decode(&newUser), line 231.
DecodeCreateBody(b) ==
  [ID |-> b.ID, Name |-> b.Name, Email |-> b.Email, Age |-> b.Age,
   CreatedAt |-> b.CreatedAt, UpdatedAt |-> b.UpdatedAt, Version |-> b.Version]

\* Only CreatedAt is overwritten; UpdatedAt stays as the caller sent it.
StampCreatedOnly(u, now) == [u EXCEPT !.CreatedAt = now]

\* Lines 237-238: both timestamps are overwritten with one reading of the clock.
StampNew(u, now) == [u EXCEPT !.CreatedAt = now, !.UpdatedAt = now]

\* ------------------------------------------------------------------ Init
Init ==
  /\ pc = "off"
  /\ database = NilDatabase
  /\ localDb = NilDatabase
  /\ coll = <<>>
  /\ clock = 0
  /\ nextOid = 1
  /\ starts = 0
  /\ steps = <<>>
  /\ reqs = [i \in Slots |-> IdleReq]
  /\ resp = NoResp
  /\ served = 0
  /\ deleted = {}

\* ------------------------------------------------------- process startup
\* The operating system starts the program: package variables are zero.
Start ==
  /\ pc \in {"off", "exited"}
  /\ starts < MaxStarts
  /\ starts' = starts + 1
  /\ pc' = "init"
  /\ database' = NilDatabase
  /\ localDb' = NilDatabase
  /\ steps' = <<>>
  /\ reqs' = [i \in Slots |-> IdleReq]
  /\ resp' = NoResp
  /\ UNCHANGED <<coll, clock, nextOid, served, deleted>>

\* init(), lines 50-81: on any error it prints and returns, leaving the
\* global database nil; main() runs all the same.
init ==
  /\ pc = "init"
  /\ \E ok \in BOOLEAN :
       database' = IF ok THEN InitHandle ELSE NilDatabase
  /\ pc' = "main"
  /\ resp' = NoResp
  /\ UNCHANGED <<localDb, coll, clock, nextOid, starts, steps, reqs, served, deleted>>

\* main with the errors of Connect and Ping unchecked: it goes on to the
\* migrations with whatever handle it has.
mainConnectUnchecked ==
  /\ pc = "main"
  /\ \E ok \in BOOLEAN :
       /\ localDb' = IF ok THEN MainHandle ELSE NilDatabase
       /\ pc' = "seed"
       /\ steps' = Append(steps, IF ok THEN "connect" ELSE "fail")
  /\ resp' = NoResp
  /\ UNCHANGED <<database, coll, clock, nextOid, starts, reqs, served, deleted>>

\* main(), lines 146-175: a second client is created, connected and pinged;
\* any error returns from main.
mainConnect ==
  /\ pc = "main"
  /\ \E ok \in BOOLEAN :
       IF ok
       THEN /\ localDb' = MainHandle
            /\ pc' = "seed"
            /\ steps' = Append(steps, "connect")
       ELSE /\ localDb' = NilDatabase
            /\ pc' = "exited"
            /\ steps' = Append(steps, "fail")
  /\ resp' = NoResp
  /\ UNCHANGED <<database, coll, clock, nextOid, starts, reqs, served, deleted>>

\* The document createUsersCollection inserts (lines 121-127): time.Now() is
\* read twice.
SampleUser(t1, t2) ==
  [ZeroUser EXCEPT !.Name = "John Doe", !.Email = "john.doe@example.com",
                   !.CreatedAt = t1, !.UpdatedAt = t2, !.Version = 1]

\* The document main inserts (lines 188-193): no Version, so it is 0.
ExampleUser(t1, t2) ==
  [ZeroUser EXCEPT !.Name = "John Doe", !.Email = "john.doe@example.com",
                   !.CreatedAt = t1, !.UpdatedAt = t2]

\* createUsersCollection(), lines 118-130, and its check in main, lines
\* 178-181. It uses the global database: when init() failed that is nil and
\* the call panics. An insert error returns from main.
createUsersCollection ==
  /\ pc = "seed"
  /\ IF database = NilDatabase
     THEN /\ pc' = "exited"
          /\ steps' = Append(steps, "panic")
          /\ UNCHANGED <<coll, clock, nextOid>>
     ELSE /\ nextOid <= MaxOid
          /\ \E d1 \in 0..1, d2 \in 0..1, ok \in BOOLEAN :
               LET t1 == clock + d1
                   t2 == t1 + d2
                   r  == InsertOne(coll, SampleUser(t1, t2), nextOid)
               IN  /\ t2 <= MaxClock
                   /\ clock' = t2
                   /\ nextOid' = nextOid + 1
                   /\ IF ok /\ r.ok
                      THEN /\ coll' = r.coll
                           /\ pc' = "backfill"
                           /\ steps' = Append(steps, "seed")
                      ELSE /\ coll' = coll
                           /\ pc' = "exited"
                           /\ steps' = Append(steps, "fail")
  /\ resp' = NoResp
  /\ UNCHANGED <<database, localDb, starts, reqs, served, deleted>>

\* addAgeField with its error unchecked: startup goes on after a failure.
addAgeFieldUnchecked ==
  /\ pc = "backfill"
  /\ \E ok \in BOOLEAN :
       /\ coll' = IF ok THEN UpdateManyAge(coll) ELSE coll
       /\ pc' = "example"
       /\ steps' = Append(steps, IF ok THEN "backfill" ELSE "fail")
  /\ resp' = NoResp
  /\ UNCHANGED <<database, localDb, clock, nextOid, starts, reqs, served, deleted>>

\* addAgeField(), lines 132-143, and its check in main, lines 183-186.
addAgeField ==
  /\ pc = "backfill"
  /\ \E ok \in BOOLEAN :
       IF ok
       THEN /\ coll' = UpdateManyAge(coll)
            /\ pc' = "example"
            /\ steps' = Append(steps, "backfill")
       ELSE /\ coll' = coll
            /\ pc' = "exited"
            /\ steps' = Append(steps, "fail")
  /\ resp' = NoResp
  /\ UNCHANGED <<database, localDb, clock, nextOid, starts, reqs, served, deleted>>

\* main, lines 187-203: the example user is inserted through main's local
\* database handle; an insert error returns from main.
mainInsertExample ==
  /\ pc = "example"
  /\ nextOid <= MaxOid
  /\ \E d1 \in 0..1, d2 \in 0..1, ok \in BOOLEAN :
       LET t1 == clock + d1
           t2 == t1 + d2
           r  == InsertOne(coll, ExampleUser(t1, t2), nextOid)
       IN  /\ t2 <= MaxClock
           /\ clock' = t2
           /\ nextOid' = nextOid + 1
           /\ IF ok /\ r.ok
              THEN /\ coll' = r.coll
                   /\ pc' = "listen"
                   /\ steps' = Append(steps, "example")
              ELSE /\ coll' = coll
                   /\ pc' = "exited"
                   /\ steps' = Append(steps, "fail")
  /\ resp' = NoResp
  /\ UNCHANGED <<database, localDb, starts, reqs, served, deleted>>

\* main, lines 205-224: the routes are registered and http.ListenAndServe
\* either starts accepting requests or returns an error (main then returns).
mainListen ==
  /\ pc = "listen"
  /\ \E ok \in BOOLEAN :
       IF ok
       THEN pc' = "serving" /\ steps' = Append(steps, "listen")
       ELSE pc' = "exited" /\ steps' = Append(steps, "fail")
  /\ resp' = NoResp
  /\ UNCHANGED <<database, localDb, coll, clock, nextOid, starts, reqs, served, deleted>>

\* The serving process ends (ListenAndServe returns or the process is
\* stopped); requests in flight end with it.
Terminate ==
  /\ pc = "serving"
  /\ pc' = "exited"
  /\ reqs' = [i \in Slots |-> IdleReq]
  /\ resp' = NoResp
  /\ UNCHANGED <<database, localDb, coll, clock, nextOid, starts, steps, served, deleted>>

\* ---------------------------------------------------------------- handlers
\* FindOne with the filter dropped: the first document of the collection.
FindOneAny(c, oid) ==
  IF c = <<>>
  THEN [ok |-> FALSE, user |-> ZeroUser]
  ELSE DecodeUser(Head(c))

\* Collection.FindOne(filter {_id: oid}).Decode(&user), line 255: an error
\* when nothing matches or when the document does not decode.
FindOne(c, oid) ==
  IF PosOf(c, oid) = 0
  THEN [ok |-> FALSE, user |-> ZeroUser]
  ELSE DecodeUser(DocOf(c, oid))

\* The loop of getAllUsers, lines 312-316: the error of cursor.Decode is
\* discarded and user is appended in every iteration.
RECURSIVE ListUsers(_)
ListUsers(c) ==
  IF c = <<>> THEN <<>>
  ELSE <<DecodeUser(Head(c)).user>> \o ListUsers(Tail(c))

\* json.NewEncoder(w).Encode(users), line 318: users is declared without a
\* value (line 303), so with no iteration it is a nil slice, encoded as null.
EncodeUsers(us) == IF Len(us) = 0 THEN "null" ELSE "array"

\* createUser with the decoding error discarded (as the id parsing error is):
\* a body that is not well-formed goes on to the insert as the zero User.
createUserDecodeLenient(i, b) ==
  /\ pc = "serving"
  /\ FreeSlot(i)
  /\ served' = served + 1
  /\ \E d \in 0..1 :
       /\ clock + d <= MaxClock
       /\ clock' = clock + d
       /\ reqs' = [reqs EXCEPT ![i] =
                     [IdleReq EXCEPT !.op = "create", !.recv = clock,
                        !.user = StampNew(IF b.wellFormed THEN DecodeCreateBody(b)
                                          ELSE ZeroUser, clock + d)]]
       /\ resp' = NoResp
  /\ UNCHANGED <<pc, database, localDb, coll, nextOid, starts, steps, deleted>>

\* createUser, lines 229-238: decode the body (400 on error), then overwrite
\* both timestamps with one reading of the clock.
createUserDecode(i, b) ==
  /\ pc = "serving"
  /\ FreeSlot(i)
  /\ served' = served + 1
  /\ IF ~b.wellFormed
     THEN /\ resp' = Response("create", 400, NilObjectID, "json", <<>>, FALSE)
          /\ UNCHANGED <<reqs, clock>>
     ELSE \E d \in 0..1 :
            /\ clock + d <= MaxClock
            /\ clock' = clock + d
            /\ reqs' = [reqs EXCEPT ![i] =
                          [IdleReq EXCEPT !.op = "create", !.recv = clock,
                             !.user = StampNew(DecodeCreateBody(b), clock + d)]]
            /\ resp' = NoResp
  /\ UNCHANGED <<pc, database, localDb, coll, nextOid, starts, steps, deleted>>

\* createUser, lines 240-247: InsertOne, 500 on error, else the insertion
\* acknowledgment.
createUserInsert(i) ==
  /\ pc = "serving"
  /\ reqs[i].op = "create"
  /\ LET r == InsertOne(coll, reqs[i].user, nextOid)
     IN  /\ r.generated => nextOid <= MaxOid
         /\ nextOid' = IF r.generated THEN nextOid + 1 ELSE nextOid
         /\ \E ok \in BOOLEAN :
              IF ok /\ r.ok
              THEN /\ coll' = r.coll
                   /\ resp' = Response("create", 200, r.id, "object", <<>>, FALSE)
              ELSE /\ coll' = coll
                   /\ resp' = Response("create", 500, NilObjectID,
                                       IF ok THEN "duplicate" ELSE "transport",
                                       <<>>, FALSE)
  /\ reqs' = [reqs EXCEPT ![i] = IdleReq]
  /\ UNCHANGED <<pc, database, localDb, clock, starts, steps, served, deleted>>

\* getUserByID, lines 249-262.
getUserByID(p) ==
  /\ pc = "serving"
  /\ served < MaxServed
  /\ served' = served + 1
  /\ LET oid == ObjectIDFromHex(p)
         r   == FindOne(coll, oid)
     IN  \E ok \in BOOLEAN :
           resp' = IF ok /\ r.ok
                   THEN Response("get", 200, oid, "object", <<r.user>>,
                                 PosOf(coll, oid) # 0)
                   ELSE Response("get", 404, oid,
                                 IF ~ok THEN "transport"
                                 ELSE IF PosOf(coll, oid) = 0 THEN "nodocs"
                                 ELSE "decode", <<>>,
                                 PosOf(coll, oid) # 0)
  /\ UNCHANGED <<pc, database, localDb, coll, clock, nextOid, starts, steps, reqs, deleted>>

\* updateUser, lines 263-280: parse the id (error discarded), decode the body
\* (400 on error), read the clock while building the update document.
updateUserDecode(i, p, b) ==
  /\ pc = "serving"
  /\ FreeSlot(i)
  /\ served' = served + 1
  /\ IF ~b.wellFormed
     THEN /\ resp' = Response("update", 400, ObjectIDFromHex(p), "json", <<>>, FALSE)
          /\ UNCHANGED <<reqs, clock>>
     ELSE \E d \in 0..1 :
            /\ clock + d <= MaxClock
            /\ clock' = clock + d
            /\ reqs' = [reqs EXCEPT ![i] =
                          [IdleReq EXCEPT !.op = "update",
                             !.oid = ObjectIDFromHex(p), !.name = b.Name,
                             !.now = clock + d]]
            /\ resp' = NoResp
  /\ UNCHANGED <<pc, database, localDb, coll, nextOid, starts, steps, deleted>>

\* updateUser, lines 276-287: UpdateOne, 500 on error, else 204.
updateUserCall(i) ==
  /\ pc = "serving"
  /\ reqs[i].op = "update"
  /\ \E ok \in BOOLEAN :
       IF ok
       THEN /\ coll' = UpdateOne(coll, reqs[i].oid, reqs[i].name, reqs[i].now)
            /\ resp' = Response("update", 204, reqs[i].oid, "none", <<>>,
                                PosOf(coll, reqs[i].oid) # 0)
       ELSE /\ coll' = coll
            /\ resp' = Response("update", 500, reqs[i].oid, "transport", <<>>,
                                PosOf(coll, reqs[i].oid) # 0)
  /\ reqs' = [reqs EXCEPT ![i] = IdleReq]
  /\ UNCHANGED <<pc, database, localDb, clock, nextOid, starts, steps, served, deleted>>

\* deleteUser, lines 289-301: DeleteOne, 500 on error, else 204.
deleteUser(p) ==
  /\ pc = "serving"
  /\ served < MaxServed
  /\ served' = served + 1
  /\ LET oid == ObjectIDFromHex(p)
     IN  \E ok \in BOOLEAN :
           IF ok
           THEN /\ coll' = DeleteOne(coll, oid)
                /\ deleted' = IF PosOf(coll, oid) # 0
                              THEN deleted \cup {oid} ELSE deleted
                /\ resp' = Response("delete", 204, oid, "none", <<>>,
                                    PosOf(coll, oid) # 0)
           ELSE /\ coll' = coll
                /\ deleted' = deleted
                /\ resp' = Response("delete", 500, oid, "transport", <<>>,
                                    PosOf(coll, oid) # 0)
  /\ UNCHANGED <<pc, database, localDb, clock, nextOid, starts, steps, reqs>>

\* getAllUsers, lines 302-319: Find (500 on error), then the loop.
getAllUsers ==
  /\ pc = "serving"
  /\ served < MaxServed
  /\ served' = served + 1
  /\ \E ok \in BOOLEAN :
       resp' = IF ok
               THEN Response("list", 200, NilObjectID, EncodeUsers(ListUsers(coll)),
                             ListUsers(coll), FALSE)
               ELSE Response("list", 500, NilObjectID, "transport", <<>>, FALSE)
  /\ UNCHANGED <<pc, database, localDb, coll, clock, nextOid, starts, steps, reqs, deleted>>

\* ------------------------------------------------------------------- Next
Next ==
  \/ Start
  \/ init
  \/ mainConnect
  \/ createUsersCollection
  \/ addAgeField
  \/ mainInsertExample
  \/ mainListen
  \/ Terminate
  \/ \E i \in Slots, b \in CreateBodies : createUserDecode(i, b)
  \/ \E i \in Slots : createUserInsert(i)
  \/ \E p \in IdParams : getUserByID(p)
  \/ \E i \in Slots, p \in IdParams, b \in UpdateBodies : updateUserDecode(i, p, b)
  \/ \E i \in Slots : updateUserCall(i)
  \/ \E p \in IdParams : deleteUser(p)
  \/ getAllUsers

Spec == Init /\ [][Next]_vars

\* A second specification for getAllUsers and getUserByID as functions of the
\* collection: the process is serving and the collection is any sequence of
\* at most MaxDocs documents with distinct identifiers, among them documents
\* that other writers of the database (or an earlier version of the program)
\* left with a field the struct cannot hold.
StoredDocs ==
  [hasId : {TRUE}, id : 1..MaxDocs, name : {"a"}, email : {"e"},
   hasAge : BOOLEAN, age : {0}, created_at : {0}, updated_at : {0},
   version : {1}, bad : {"none", "name", "version"}]

RECURSIVE CollsOfLen(_)
CollsOfLen(n) ==
  IF n = 0 THEN {<<>>}
  ELSE {Append(c, d) : c \in CollsOfLen(n - 1), d \in StoredDocs}

ListColls ==
  {c \in UNION {CollsOfLen(n) : n \in 0..MaxDocs} :
     Cardinality(IdsOf(c)) = Len(c)}

InitList ==
  /\ pc = "serving"
  /\ database = InitHandle
  /\ localDb = MainHandle
  /\ coll \in ListColls
  /\ clock = 0
  /\ nextOid = MaxDocs + 1
  /\ starts = 1
  /\ steps = <<"connect", "seed", "backfill", "example", "listen">>
  /\ reqs = [i \in Slots |-> IdleReq]
  /\ resp = NoResp
  /\ served = 0
  /\ deleted = {}

NextList ==
  \/ getAllUsers
  \/ \E p \in IdParams : getUserByID(p)

SpecList == InitList /\ [][NextList]_vars

\* A third specification for update requests sent one after the other by one
\* client: the process has just started serving (the collection holds the two
\* documents of one startup) and a request is accepted only when none is in
\* flight.
AfterStartup ==
  InsertOne(UpdateManyAge(InsertOne(<<>>, SampleUser(0, 0), 1).coll),
            ExampleUser(0, 0), 2).coll

InitTwice ==
  /\ pc = "serving"
  /\ database = InitHandle
  /\ localDb = MainHandle
  /\ coll = AfterStartup
  /\ clock \in 0..MaxClock
  /\ nextOid = 3
  /\ starts = 1
  /\ steps = <<"connect", "seed", "backfill", "example", "listen">>
  /\ reqs = [i \in Slots |-> IdleReq]
  /\ resp = NoResp
  /\ served = 0
  /\ deleted = {}

updateUserAlone(p, b) ==
  /\ \A j \in Slots : reqs[j].op = "idle"
  /\ updateUserDecode(1, p, b)

NextTwice ==
  \/ \E p \in IdParams, b \in UpdateBodies : updateUserAlone(p, b)
  \/ updateUserCall(1)

SpecTwice == InitTwice /\ [][NextTwice]_vars

\* A fourth specification for update requests served concurrently: as
\* SpecTwice, but a request is accepted whenever a goroutine is free, so the
\* clock readings and the store calls of two requests interleave in any order.
NextUpdates ==
  \/ \E i \in Slots, p \in IdParams, b \in UpdateBodies : updateUserDecode(i, p, b)
  \/ \E i \in Slots : updateUserCall(i)

SpecUpdates == InitTwice /\ [][NextUpdates]_vars

\* The handle each part of the program reaches the collection through:
\* createUsersCollection, addAgeField and the five handlers read the
\* package-level database (lines 119, 133, 240, 254, 276, 293, 304); the
\* example insert reads main's local database, which shadows it (line 196).
MigrationHandle == database
HandlerHandle   == database
ExampleHandle   == localDb

\* The connections this process has established.
Connections == {database, localDb} \ {NilDatabase}

\* =================================================================== claims
\* Steps of the handlers, as seen from the two states of a step.
UpdateCallBy(i) ==
  reqs[i].op = "update" /\ reqs'[i].op = "idle" /\ resp'.op = "update"

CreateInsertBy(i) ==
  reqs[i].op = "create" /\ reqs'[i].op = "idle" /\ resp'.op = "create"

C2_CreatedLeUpdated ==
  \A k \in 1..Len(coll) : coll[k].created_at <= coll[k].updated_at

\* C3 (as stated): once the backfill step of this process has run, every
\* stored document has the age field.
C3_AgeAlwaysPresent ==
  (\E k \in 1..Len(steps) : steps[k] = "backfill")
    => \A k \in 1..Len(coll) : coll[k].hasAge

\* C3 (amended): right after the backfill step every stored document has the
\* age field, a document that has the field keeps it while it is stored, and a
\* document inserted later has the field only when its age is not zero.
C3_AgeAfterBackfill ==
  [][/\ (pc = "backfill" /\ pc' = "example")
          => \A k \in 1..Len(coll') : coll'[k].hasAge
     /\ \A x \in IdsOf(coll) \cap IdsOf(coll') :
          DocOf(coll, x).hasAge => DocOf(coll', x).hasAge
     /\ \A x \in IdsOf(coll') \ IdsOf(coll) :
          DocOf(coll', x).hasAge <=> DocOf(coll', x).age # 0]_vars

\* C3 witness: the backfill of a second start has just run over documents an
\* earlier process left, one of them inserted without the age field.
C3_Witness ==
  /\ pc = "example"
  /\ starts = 2
  /\ Len(coll) >= 3
  /\ \A k \in 1..Len(coll) : coll[k].hasAge /\ coll[k].age = 0

\* The users a listing would hold if documents that fail to decode were left out.
RECURSIVE DecodedOnly(_)
DecodedOnly(c) ==
  IF c = <<>> THEN <<>>
  ELSE (IF DecodeUser(Head(c)).ok THEN <<DecodeUser(Head(c)).user>> ELSE <<>>)
       \o DecodedOnly(Tail(c))

\* C4: a 200 listing holds exactly the documents that decoded, in order, and
\* no entry for a document whose decoding failed.
C4_ListOmitsUndecodable ==
  (resp.op = "list" /\ resp.status = 200) => resp.users = DecodedOnly(coll)

\* C5: requests are accepted only by a process whose startup ran seed and then
\* backfill, both without error; a failed step ends the process before the
\* listener starts.
C5_StartupBeforeListen ==
  /\ (pc \in {"listen", "serving"} \/ resp # NoResp
        \/ \E i \in Slots : reqs[i].op # "idle")
       => /\ Len(steps) >= 4
          /\ steps[2] = "seed" /\ steps[3] = "backfill" /\ steps[4] = "example"
  /\ (\E k \in 1..Len(steps) : steps[k] \in {"fail", "panic"})
       => /\ pc = "exited"
          /\ steps[Len(steps)] \in {"fail", "panic"}
          /\ resp = NoResp
          /\ \A i \in Slots : reqs[i].op = "idle"
  /\ pc = "serving" => steps = <<"connect", "seed", "backfill", "example", "listen">>

\* C5 witness: the backfill step failed after a successful seed and the
\* process ended without listening.
C5_Witness ==
  /\ pc = "exited"
  /\ steps = <<"connect", "seed", "fail">>
  /\ Len(coll) > 0

\* C6: an identifier whose delete removed a document (204) is never stored
\* again: read-by-ID finds nothing and no listing holds it.
C6_DeletedStaysDeleted ==
  \A x \in deleted :
    /\ ~FindOne(coll, x).ok
    /\ \A k \in 1..Len(coll) : ListUsers(coll)[k].ID # x

\* C7: the identifier of an inserted document is the one the driver generated,
\* never one from the create payload; identifiers are pairwise distinct; no
\* step changes the identifier of a stored document.
C7_StoreAssignedId ==
  [][/\ \A i \in Slots :
          (CreateInsertBy(i) /\ resp'.status = 200)
            => /\ resp'.oid # reqs[i].user.ID
               /\ resp'.oid \notin IdsOf(coll)
               /\ IdsOf(coll') = IdsOf(coll) \cup {resp'.oid}
     /\ Cardinality(IdsOf(coll')) = Len(coll')
     /\ Len(coll') = Len(coll)
          => \A k \in 1..Len(coll) : coll'[k].id = coll[k].id]_vars

\* C8: the document a create inserts has created_at = updated_at, whatever
\* timestamps the payload carried, and both are at or after the receipt of the
\* request.
C8_CreateStamps ==
  [][\A i \in Slots :
       (CreateInsertBy(i) /\ resp'.status = 200)
         => /\ resp'.oid \in IdsOf(coll') \ IdsOf(coll)
            /\ DocOf(coll', resp'.oid).created_at = DocOf(coll', resp'.oid).updated_at
            /\ DocOf(coll', resp'.oid).created_at >= reqs[i].recv
            /\ DocOf(coll', resp'.oid).created_at <= clock']_vars

\* C8 witness: a create was answered 200 and its document carries one
\* timestamp, later than the time the model started at.
C8_Witness ==
  /\ resp.op = "create"
  /\ resp.status = 200
  /\ resp.oid \in IdsOf(coll)
  /\ DocOf(coll, resp.oid).created_at = 1
  /\ DocOf(coll, resp.oid).updated_at = 1

\* C9: an update answered 204 sets name and updated_at of the document it
\* names and nothing else: that document's other fields, every other document,
\* and the identifiers stored (in their order) are as before.
C9_UpdateFrame ==
  [][\A i \in Slots :
       (UpdateCallBy(i) /\ resp'.status = 204)
         => /\ Len(coll') = Len(coll)
            /\ \A k \in 1..Len(coll) :
                 IF coll[k].id = reqs[i].oid
                 THEN coll'[k] = [coll[k] EXCEPT !.name = reqs[i].name,
                                                 !.updated_at = reqs[i].now]
                 ELSE coll'[k] = coll[k]]_vars

\* C9 witness: an update that matched a stored document was answered 204 and
\* the document carries the new name.
C9_Witness ==
  /\ resp.op = "update"
  /\ resp.status = 204
  /\ resp.hit
  /\ resp.oid \in IdsOf(coll)
  /\ DocOf(coll, resp.oid).name = "b"
  /\ Len(coll) >= 2

\* The user read-by-ID returns for a stored document: every stored field, age
\* 0 when the document has none.
FullUser(d) ==
  [ID |-> d.id, Name |-> d.name, Email |-> d.email,
   Age |-> IF d.hasAge THEN d.age ELSE 0,
   CreatedAt |-> d.created_at, UpdatedAt |-> d.updated_at, Version |-> d.version]

\* C10 (as stated): read-by-ID answers 404 for an identifier that is not
\* stored, the zero identifier is never stored, and it answers 200 with the
\* full document exactly when the identifier is stored.
C10_GetExactlyWhenPresent ==
  /\ NilObjectID \notin IdsOf(coll)
  /\ resp.op = "get"
       => /\ resp.status \in {200, 404}
          /\ resp.status = 200 <=> resp.oid \in IdsOf(coll)
          /\ resp.status = 200 => resp.users = <<FullUser(DocOf(coll, resp.oid))>>

\* C10 (amended): read-by-ID answers 404 for an identifier that is not stored,
\* the zero identifier is never stored, and it answers 200 with the full
\* document when the identifier is stored, unless the lookup itself fails (the
\* store call or the decoding of its result), which is answered 404 too.
C10_GetPresentOrLookupError ==
  /\ NilObjectID \notin IdsOf(coll)
  /\ resp.op = "get"
       => /\ resp.status \in {200, 404}
          /\ resp.oid \notin IdsOf(coll) => resp.status = 404
          /\ resp.status = 200 => resp.users = <<FullUser(DocOf(coll, resp.oid))>>
          /\ (resp.oid \in IdsOf(coll) /\ resp.status = 404)
               => resp.body \in {"transport", "decode"}

\* C10 witness: a read with an id parameter that parsed to the zero identifier
\* was answered 404 while documents are stored.
C10_Witness ==
  /\ resp.op = "get"
  /\ resp.status = 404
  /\ resp.oid = NilObjectID
  /\ resp.body = "nodocs"
  /\ Len(coll) >= 2

\* The collection c without the document whose identifier is oid, the others
\* in their order.
RECURSIVE Without(_, _)
Without(c, oid) ==
  IF c = <<>> THEN <<>>
  ELSE (IF Head(c).id = oid THEN <<>> ELSE <<Head(c)>>) \o Without(Tail(c), oid)

\* C11: a delete whose store call returns without error is answered 204; when
\* its identifier matches no document (an unparseable id parameter included)
\* the collection is unchanged; when it matches, exactly that document is
\* removed and every other document is as before. A failed store call is
\* answered 500 and changes nothing.
C11_DeleteNoMatchIs204 ==
  [][resp'.op = "delete"
       => /\ resp'.status \in {204, 500}
          /\ resp'.status = 500 => (resp'.body = "transport" /\ coll' = coll)
          /\ (resp'.status = 204 /\ resp'.oid \notin IdsOf(coll)) => coll' = coll
          /\ (resp'.status = 204 /\ resp'.oid \in IdsOf(coll))
               => /\ Len(coll') = Len(coll) - 1
                  /\ coll' = Without(coll, resp'.oid)]_vars

\* C11 witness: after a delete that removed a document, a delete with an id
\* parameter that does not parse was answered 204 with documents still stored.
C11_Witness ==
  /\ resp.op = "delete"
  /\ resp.status = 204
  /\ ~resp.hit
  /\ resp.oid = NilObjectID
  /\ deleted # {}
  /\ Len(coll) >= 1

\* Name, email and age of a user.
Sent(u) == [Name |-> u.Name, Email |-> u.Email, Age |-> u.Age]

\* C12: the document a create inserts decodes to the name, email and age of
\* the payload (age 0 when the payload has none), and a read-by-ID that
\* follows the acknowledgment with the identifier it returned answers 200 with
\* that name, email and age, unless the lookup's store call fails.
C12_RoundTrip ==
  [][/\ \A i \in Slots :
          (CreateInsertBy(i) /\ resp'.status = 200)
            => /\ resp'.oid \in IdsOf(coll')
               /\ Sent(FullUser(DocOf(coll', resp'.oid))) = Sent(reqs[i].user)
     /\ (resp.op = "create" /\ resp.status = 200
           /\ resp'.op = "get" /\ resp'.oid = resp.oid)
          => \/ /\ resp'.status = 200
                /\ Len(resp'.users) = 1
                /\ resp'.users[1].ID = resp.oid
                /\ Sent(resp'.users[1]) = Sent(FullUser(DocOf(coll, resp.oid)))
             \/ resp'.status = 404 /\ resp'.body = "transport"]_vars

\* C12 witness: a read-by-ID answered 200 with a user a create inserted with
\* a non-zero age.
C12_Witness ==
  /\ resp.op = "get"
  /\ resp.status = 200
  /\ resp.users[1].Name = "a"
  /\ resp.users[1].Email = "e"
  /\ resp.users[1].Age = 7
  /\ resp.users[1].ID = resp.oid

\* C13: a create or update answered 400 made no store call and left nothing
\* to run later: the collection, the identifiers the driver has generated and
\* the requests in flight are as before, and the request counts once. Every
\* create or update that goes on to its store call carries fields decoded from
\* a well-formed body; no other handler answers 400.
C13_MalformedIs400 ==
  [][/\ resp'.status = 400
          => /\ resp'.op \in {"create", "update"}
             /\ resp'.body = "json"
             /\ coll' = coll
             /\ nextOid' = nextOid
             /\ reqs' = reqs
             /\ served' = served + 1
     /\ \A i \in Slots :
          /\ reqs'[i].op = "create"
               => /\ reqs'[i].user.Name \in Names
                  /\ reqs'[i].user.Email \in Emails
          /\ reqs'[i].op = "update" => reqs'[i].name \in NewNames
          /\ (reqs[i].op = "idle" /\ reqs'[i].op # "idle")
               => (resp' = NoResp /\ coll' = coll)]_vars

\* C13 witness: a create with a malformed body was answered 400 while
\* documents are stored and another request is in flight.
C13_Witness ==
  /\ resp.op = "create"
  /\ resp.status = 400
  /\ resp.body = "json"
  /\ Len(coll) >= 2
  /\ \E i \in Slots : reqs[i].op = "update"

\* C14: when connecting or pinging fails at process start (in init, leaving
\* the global handle nil, or in main), the process ends before any migration
\* changes the collection, before the listener starts and before any handler
\* runs: every step that changes the collection, reaches a later startup step
\* or serves a request is taken by a process both of whose handles are
\* connected.
C14_ConnectFailureAborts ==
  [][/\ (\/ coll' # coll
          \/ pc' \in {"backfill", "example", "listen", "serving"}
          \/ resp' # NoResp
          \/ \E i \in Slots : reqs'[i].op # "idle")
          => (database' = InitHandle /\ localDb' = MainHandle)
     /\ (pc = "main" /\ localDb' = NilDatabase)
          => (pc' = "exited" /\ coll' = coll)
     /\ (pc = "seed" /\ (database = NilDatabase \/ localDb = NilDatabase))
          => (pc' = "exited" /\ coll' = coll)]_vars

\* C14 witness: in a second process start init failed to connect, main
\* connected, and the process ended at the first migration with the
\* collection as the first process left it.
C14_Witness ==
  /\ pc = "exited"
  /\ starts = 2
  /\ database = NilDatabase
  /\ localDb = MainHandle
  /\ steps = <<"connect", "panic">>
  /\ Len(coll) = 2

\* An update that repeats the last one applied to its document: in SpecTwice
\* only an update gives a document a name of NewNames, so the document already
\* carries the name of the request.
RepeatedUpdateBy(i) ==
  /\ UpdateCallBy(i)
  /\ resp'.status = 204
  /\ reqs[i].oid \in IdsOf(coll)
  /\ DocOf(coll, reqs[i].oid).name = reqs[i].name

\* C15 (as stated): the second of two equal updates applied one after the
\* other leaves the name as the first did and stores an updated_at later than
\* the one the first stored.
C15_SameUpdateTwiceLater ==
  [][\A i \in Slots :
       RepeatedUpdateBy(i)
         => /\ DocOf(coll', reqs[i].oid).name = DocOf(coll, reqs[i].oid).name
            /\ DocOf(coll', reqs[i].oid).updated_at
                 > DocOf(coll, reqs[i].oid).updated_at]_vars

\* C15 (amended): the second of two equal updates applied one after the other
\* leaves the name as the first did and stores the time it read as updated_at,
\* which is not earlier than the one the first stored (it is equal when the
\* clock has not advanced between the two readings).
C15_SameUpdateTwiceNotEarlier ==
  [][\A i \in Slots :
       RepeatedUpdateBy(i)
         => /\ DocOf(coll', reqs[i].oid).name = DocOf(coll, reqs[i].oid).name
            /\ DocOf(coll', reqs[i].oid).name = reqs[i].name
            /\ DocOf(coll', reqs[i].oid).updated_at = reqs[i].now
            /\ DocOf(coll', reqs[i].oid).updated_at
                 >= DocOf(coll, reqs[i].oid).updated_at]_vars

\* C15 witness: the first update has been applied and the second, equal to
\* it, has been accepted and is about to make its store call.
C15_Witness ==
  /\ served = 2
  /\ reqs[1].op = "update"
  /\ reqs[1].name = "b"
  /\ reqs[1].oid \in IdsOf(coll)
  /\ DocOf(coll, reqs[1].oid).name = "b"

\* C16: a listing of an empty collection is answered 200 with an empty array
\* as its body, not null.
C16_EmptyListIsArray ==
  (resp.op = "list" /\ coll = <<>>)
    => \/ resp.status = 200 /\ resp.body = "array" /\ resp.users = <<>>
       \/ resp.status = 500 /\ resp.body = "transport"

\* C17: while no request has been served every stored document is a sample
\* user inserted by the seed step, with version 1, and there is at most one
\* per process start; a first startup that got as far as listening has
\* inserted exactly one.
C17_OneSamplePerStartup ==
  served = 0
    => /\ \A k \in 1..Len(coll) : coll[k].version = 1
       /\ Len(coll) <= starts
       /\ (starts = 1 /\ pc \in {"listen", "serving"}) => Len(coll) = 1

\* C18: a backfill step that succeeds gives every document stored when it
\* runs the age 0, whatever age it had, changes no other field and stores no
\* other document; running it again on the result changes nothing.
C18_BackfillOverwrites ==
  [][(pc = "backfill" /\ pc' = "example")
       => /\ Len(coll') = Len(coll)
          /\ \A k \in 1..Len(coll) :
               coll'[k] = [coll[k] EXCEPT !.hasAge = TRUE, !.age = 0]
          /\ UpdateManyAge(coll') = coll']_vars

\* C18 witness: the backfill step of a second process is about to run over a
\* collection that holds a document with a non-zero age.
C18_Witness ==
  /\ pc = "backfill"
  /\ starts = 2
  /\ \E k \in 1..Len(coll) : coll[k].hasAge /\ coll[k].age = 7

\* C19: a process that got past its migrations has established one
\* connection, and the migrations, the example insert and the handlers all go
\* through that one handle.
C19_SingleHandle ==
  pc \in {"example", "listen", "serving"}
    => /\ Cardinality(Connections) = 1
       /\ ExampleHandle = MigrationHandle
       /\ HandlerHandle = MigrationHandle

\* C20: whatever the interleaving of concurrent updates, no step lowers the
\* updated_at of a stored document, and an update that is applied leaves the
\* document with the name and the updated_at of that one request.
C20_UpdatedAtMonotone ==
  [][/\ \A x \in IdsOf(coll) \cap IdsOf(coll') :
          DocOf(coll', x).updated_at >= DocOf(coll, x).updated_at
     /\ \A i \in Slots :
          (UpdateCallBy(i) /\ resp'.status = 204 /\ reqs[i].oid \in IdsOf(coll))
            => /\ DocOf(coll', reqs[i].oid).name = reqs[i].name
               /\ DocOf(coll', reqs[i].oid).updated_at = reqs[i].now]_vars

====
